---- MODULE Spec2Model ----
(***************************************************************************)
(* A model of the xkcd-daily repository: the scraper pipeline              *)
(* (src/src/scraper.py), the README updater (src/src/update_readme.py)     *)
(* and the resize step of the e-paper renderer (src/src/what_xkcd.py).     *)
(*                                                                         *)
(* Python strings are sequences of one-character strings, so that          *)
(* sanitising, splitting, globbing and sorting are computed character by   *)
(* character.  File contents are sequences of byte values.                 *)
(***************************************************************************)
EXTENDS Integers, Sequences, FiniteSets, TLC

VARIABLES
    s_pc, s_in, s_out,              \* sanitize_filename applied to one input
    r_pc, img_size, resized, box,   \* the renderer's resize and crop arithmetic
    files, before, last, runs,      \* the scraper in one working directory
    data, readme, today,            \* the data/ tree, README.md and the clock
    d_pc, d_last, u_last, d_runs    \* the two entry points run over them

vars == <<s_pc, s_in, s_out, r_pc, img_size, resized, box,
          files, before, last, runs, data, readme, today, d_pc, d_last, u_last, d_runs>>

sanVars    == <<s_pc, s_in, s_out>>
renderVars == <<r_pc, img_size, resized, box>>
scrapeVars == <<files, before, last, runs>>
dailyVars  == <<data, readme, today, d_pc, d_last, u_last, d_runs>>

----------------------------------------------------------------------------
(* Bounds of the model. *)

MaxLen  == 3    \* length of the strings given to sanitize_filename
MaxDim  == 16   \* width and height of the source images
MaxRuns == 2    \* pipeline runs in one working directory
MaxDays == 1    \* runs of the daily scraper

----------------------------------------------------------------------------
(* Strings. *)

\* An optional value: None, or Some(x) holding x
None == <<>>
Some(x) == <<x>>
The(o) == o[1]

\* str.startswith
StartsWith(s, p) == Len(s) >= Len(p) /\ SubSeq(s, 1, Len(p)) = p

\* str.endswith
EndsWith(s, p) == Len(s) >= Len(p) /\ SubSeq(s, Len(s) - Len(p) + 1, Len(s)) = p

Contains(s, c) == \E i \in 1..Len(s) : s[i] = c

\* str.split(sep) for a one-character separator: the pieces between separators
RECURSIVE SplitFrom(_, _, _)
SplitFrom(s, sep, piece) ==
    IF s = <<>> THEN <<piece>>
    ELSE IF Head(s) = sep THEN <<piece>> \o SplitFrom(Tail(s), sep, <<>>)
    ELSE SplitFrom(Tail(s), sep, Append(piece, Head(s)))

split(s, sep) == SplitFrom(s, sep, <<>>)

\* str.replace(' ', '%20')
RECURSIVE replace_spaces(_)
replace_spaces(s) ==
    IF s = <<>> THEN <<>>
    ELSE (IF Head(s) = " " THEN <<"%", "2", "0">> ELSE <<Head(s)>>)
         \o replace_spaces(Tail(s))

\* Code points of the characters that occur in directory-entry names
Ord(c) ==
    CASE c = " " -> 32 [] c = "-" -> 45 [] c = "." -> 46
      [] c = "0" -> 48 [] c = "1" -> 49 [] c = "2" -> 50 [] c = "3" -> 51
      [] c = "4" -> 52 [] c = "5" -> 53 [] c = "6" -> 54 [] c = "7" -> 55
      [] c = "8" -> 56 [] c = "9" -> 57
      [] c = "A" -> 65 [] c = "B" -> 66 [] c = "T" -> 84
      [] c = "a" -> 97 [] c = "b" -> 98 [] c = "g" -> 103 [] c = "j" -> 106
      [] c = "n" -> 110 [] c = "p" -> 112 [] c = "t" -> 116 [] c = "x" -> 120
      [] OTHER -> 127

\* Python's < on str: the first differing code point decides, a proper prefix is smaller
RECURSIVE StrLess(_, _)
StrLess(a, b) ==
    IF b = <<>> THEN FALSE
    ELSE IF a = <<>> THEN TRUE
    ELSE IF Head(a) = Head(b) THEN StrLess(Tail(a), Tail(b))
    ELSE Ord(Head(a)) < Ord(Head(b))

----------------------------------------------------------------------------
(* scraper.py: sanitize_filename *)

INVALID_FILENAME_CHARS_NoDot ==
    {"/", "\\", "?", "%", "*", ":", "|", "\"", "<", ">"}

INVALID_FILENAME_CHARS ==
    {"/", "\\", "?", "%", "*", ":", "|", "\"", "<", ">", "."}

\* ''.join(char for char in filename if char not in INVALID_FILENAME_CHARS)
RECURSIVE sanitize_filename(_)
sanitize_filename(filename) ==
    IF filename = <<>> THEN <<>>
    ELSE (IF Head(filename) \in INVALID_FILENAME_CHARS THEN <<>> ELSE <<Head(filename)>>)
         \o sanitize_filename(Tail(filename))

\* The characters the inputs of sanitize_filename are drawn from: the whole
\* denylist and three harmless characters
SanAlphabet == {"/", "\\", "?", "%", "*", ":", "|", "\"", "<", ">", ".", "A", "b", " "}

SanInputs == UNION {[1..n -> SanAlphabet] : n \in 0..MaxLen}

----------------------------------------------------------------------------
(* scraper.py: the network, as the pipeline sees it *)

XKCD_BASE_URL == <<"h", "t", "t", "p", "s", ":", "/", "/", "x", "k", "c", "d", ".", "c", "o", "m", "/">>

\* The image references a page can carry: protocol-relative with a .png, absolute
\* with a .jpg, and one whose last '.' is in the host name
UrlPng   == <<"/", "/", "i", ".", "x", "/", "a", ".", "p", "n", "g">>
UrlJpg   == <<"h", "t", "t", "p", "s", ":", "/", "/", "i", ".", "x", "/", "b", ".", "j", "p", "g">>
UrlNoExt == <<"/", "/", "i", ".", "x", "/", "c">>
ImageUrls == {UrlPng, UrlJpg, UrlNoExt}

\* Titles: two that sanitize to the same basename, and one with a space
Titles == {<<"A", ":", "b">>, <<"A", "b">>, <<"B", " ", "b">>}

\* Transcript texts, as sequences of code points: "H\u00e9", one ASCII character and
\* one that is not
Transcripts == {<<72, 233>>}

\* Bodies an image server can serve
ImageBodies == {<<1, 2>>, <<3>>}

\* A parsed page: what the three looked-up elements hold.  comic is <<"absent">>
\* (no element with id "comic"), <<"noimg">> (no <img> in it), <<"nosrc">> (an
\* <img> without src) or <<"src", url>>; ctitle and transcript are None or
\* Some(the element's text).
FullDocs ==
    {[comic |-> <<"src", u>>, ctitle |-> Some(t), transcript |-> Some(x)] :
        u \in ImageUrls, t \in Titles, x \in Transcripts}

BrokenDocs ==
    LET d == [comic |-> <<"src", UrlPng>>, ctitle |-> Some(<<"A", "b">>),
              transcript |-> Some(<<72, 105>>)] IN
    {[d EXCEPT !.comic = <<"absent">>], [d EXCEPT !.comic = <<"noimg">>],
     [d EXCEPT !.comic = <<"nosrc">>],
     [d EXCEPT !.ctitle = None], [d EXCEPT !.transcript = None]}

Docs == FullDocs \cup BrokenDocs

\* A response: status 0 stands for an exception raised before any status arrived
ConnectionError == [status |-> 0, body |-> None]

PageResponses ==
    {ConnectionError, [status |-> 404, body |-> None]}
    \cup {[status |-> 200, body |-> Some(d)] : d \in Docs}

ImageResponses ==
    {ConnectionError, [status |-> 404, body |-> None]}
    \cup {[status |-> 200, body |-> Some(b)] : b \in ImageBodies}

HasScheme(url) ==
    \/ StartsWith(url, <<"h", "t", "t", "p", "s", ":", "/", "/">>)
    \/ StartsWith(url, <<"h", "t", "t", "p", ":", "/", "/">>)

\* requests.get(url) followed by raise_for_status(): Some(body), or None when a
\* RequestException is raised (no scheme, connection error, status 4xx or 5xx)
requests_get(url, resp) ==
    IF ~HasScheme(url) \/ resp.status = 0 \/ resp.status >= 400
    THEN None
    ELSE resp.body

\* fetch_webpage: Some(the parsed page), or None
fetch_webpage(url, resp) == requests_get(url, resp)

\* extract_comic_data: Some(the three fields), or None when a lookup raises
\* AttributeError, TypeError or KeyError
extract_comic_data(soup) ==
    IF soup.comic[1] # "src" \/ soup.ctitle = None \/ soup.transcript = None
    THEN None
    ELSE Some([image_url |-> soup.comic[2], title |-> The(soup.ctitle),
               transcript |-> The(soup.transcript)])

\* download_image: "https:" is put before a protocol-relative reference
download_image(image_url, resp) ==
    LET url == IF StartsWith(image_url, <<"/", "/">>)
               THEN <<"h", "t", "t", "p", "s", ":">> \o image_url
               ELSE image_url
    IN requests_get(url, resp)

get_file_extension_with_dot(url) == <<".">> \o split(url, ".")[Len(split(url, "."))]

\* get_file_extension: url.split('.')[-1]
get_file_extension(url) == split(url, ".")[Len(split(url, "."))]

----------------------------------------------------------------------------
(* scraper.py: the file system, as save_image and save_transcript see it *)

\* A directory is a function from file names to contents; the working directory
\* holds no subdirectory, so opening a path with a '/' in it raises
\* FileNotFoundError.
NoFiles == [p \in {} |-> <<>>]

\* What the operating system does to one open-and-write: all of it, an error at
\* open, or an error after `written` bytes (the file is left truncated)
IoOutcomes(payload) ==
    {[kind |-> "ok", written |-> Len(payload)], [kind |-> "open_error", written |-> 0]}
    \cup {[kind |-> "write_error", written |-> n] : n \in 0..(Len(payload) - 1)}

Put(fs, path, content) ==
    [p \in DOMAIN fs \cup {path} |-> IF p = path THEN content ELSE fs[p]]

write_file_exclusive(fs, path, payload, io) ==
    IF Contains(path, "/") \/ io.kind = "open_error" \/ path \in DOMAIN fs
    THEN [files |-> fs, ok |-> FALSE]
    ELSE [files |-> Put(fs, path, SubSeq(payload, 1, io.written)), ok |-> io.kind = "ok"]

\* with open(filepath, mode) as f: f.write(payload), under try/except IOError.
\* Modes 'wb' and 'w' truncate an existing file at open.
write_file(fs, path, payload, io) ==
    IF Contains(path, "/") \/ io.kind = "open_error"
    THEN [files |-> fs, ok |-> FALSE]
    ELSE [files |-> Put(fs, path, SubSeq(payload, 1, io.written)), ok |-> io.kind = "ok"]

\* str.encode('utf-8') for code points below 2048
RECURSIVE utf8_encode(_)
utf8_encode(text) ==
    IF text = <<>> THEN <<>>
    ELSE (IF Head(text) < 128 THEN <<Head(text)>>
          ELSE <<192 + (Head(text) \div 64), 128 + (Head(text) % 64)>>)
         \o utf8_encode(Tail(text))

\* bytes.decode('utf-8') for the same range
RECURSIVE utf8_decode(_)
utf8_decode(bytes) ==
    IF bytes = <<>> THEN <<>>
    ELSE IF Head(bytes) < 128 THEN <<Head(bytes)>> \o utf8_decode(Tail(bytes))
    ELSE IF Len(bytes) >= 2 /\ Head(bytes) >= 192 /\ bytes[2] >= 128 /\ bytes[2] < 192
         THEN <<(Head(bytes) - 192) * 64 + (bytes[2] - 128)>> \o utf8_decode(Tail(Tail(bytes)))
         ELSE <<65533>>

save_image(fs, image_data, filepath, io) == write_file(fs, filepath, image_data, io)

save_transcript(fs, transcript, filepath, io) ==
    write_file(fs, filepath, utf8_encode(transcript), io)

----------------------------------------------------------------------------
(* scraper.py: get_comic and get_current_comic *)

\* str(comic_index)
Digit(d) ==
    CASE d = 0 -> "0" [] d = 1 -> "1" [] d = 2 -> "2" [] d = 3 -> "3" [] d = 4 -> "4"
      [] d = 5 -> "5" [] d = 6 -> "6" [] d = 7 -> "7" [] d = 8 -> "8" [] d = 9 -> "9"

RECURSIVE str(_)
str(n) == IF n < 10 THEN <<Digit(n)>> ELSE str(n \div 10) \o <<Digit(n % 10)>>

ComicIndexes == {614}

\* What one call did: the steps it attempted, in order, each step's result, the
\* response the image server gave, the paths it built, what the operating system
\* did to each write, and its return value
Start(op, url) ==
    [op |-> op, url |-> url, steps |-> <<>>,
     soup |-> None, comic_data |-> None, image_resp |-> None, image_data |-> None,
     image_path |-> None, transcript_path |-> None,
     io_image |-> None, io_transcript |-> None, ret |-> FALSE]

NoRun == Start("none", <<>>)

Return(fs, rec, ret) == [files |-> fs, last |-> [rec EXCEPT !.ret = ret]]

TranscriptSuffix == <<"_", "t", "r", "a", "n", "s", "c", "r", "i", "p", "t", ".", "t", "x", "t">>

Remove(fs, path) == [p \in DOMAIN fs \ {path} |-> fs[p]]

run_save_transcript_rollback(fs, rec) ==
    LET comic_data == The(rec.comic_data)
        transcript_path == sanitize_filename(comic_data.title) \o TranscriptSuffix
    IN {LET w == save_transcript(fs, comic_data.transcript, transcript_path, io)
            r == [rec EXCEPT !.steps = Append(@, "save_transcript"),
                             !.transcript_path = Some(transcript_path),
                             !.io_transcript = Some(io)]
        IN IF w.ok THEN Return(w.files, r, TRUE)
           ELSE Return(Remove(Remove(w.files, transcript_path), The(rec.image_path)), r, FALSE)
        : io \in IoOutcomes(utf8_encode(comic_data.transcript))}

\* get_comic, lines 204-210: save the transcript, return True if that worked
run_save_transcript(fs, rec) ==
    LET comic_data == The(rec.comic_data)
        sanitized_title == sanitize_filename(comic_data.title)
        transcript_path == sanitized_title \o TranscriptSuffix
    IN {LET w == save_transcript(fs, comic_data.transcript, transcript_path, io)
            r == [rec EXCEPT !.steps = Append(@, "save_transcript"),
                             !.transcript_path = Some(transcript_path),
                             !.io_transcript = Some(io)]
        IN Return(w.files, r, w.ok)
        : io \in IoOutcomes(utf8_encode(comic_data.transcript))}

\* lines 198-202 (241-245): save the image; then lines 204-210 in get_comic,
\* return True in get_current_comic
run_save_image(fs, rec, with_transcript) ==
    LET comic_data == The(rec.comic_data)
        sanitized_title == sanitize_filename(comic_data.title)
        file_extension == get_file_extension(comic_data.image_url)
        image_path == sanitized_title \o <<".">> \o file_extension
    IN UNION {LET w == save_image(fs, The(rec.image_data), image_path, io)
                  r == [rec EXCEPT !.steps = Append(@, "save_image"),
                                   !.image_path = Some(image_path),
                                   !.io_image = Some(io)]
              IN IF ~w.ok THEN {Return(w.files, r, FALSE)}
                 ELSE IF with_transcript THEN run_save_transcript(w.files, r)
                 ELSE {Return(w.files, r, TRUE)}
              : io \in IoOutcomes(The(rec.image_data))}

after_download_unchecked(fs, rec, with_transcript) ==
    IF rec.image_data = None
    THEN run_save_transcript(fs, rec)
    ELSE run_save_image(fs, rec, with_transcript)

\* lines 195-196 (238-239): if image_data is None: return False
after_download(fs, rec, with_transcript) ==
    IF rec.image_data = None
    THEN {Return(fs, rec, FALSE)}
    ELSE run_save_image(fs, rec, with_transcript)

\* lines 193-194 (236-237): download the image
run_download(fs, rec, with_transcript) ==
    UNION {after_download(fs,
                          [rec EXCEPT !.steps = Append(@, "download_image"),
                                      !.image_resp = Some(resp),
                                      !.image_data =
                                          download_image(The(rec.comic_data).image_url, resp)],
                          with_transcript)
           : resp \in ImageResponses}

\* lines 185-188 (228-231): extract the comic data, return False if there is none
run_extract(fs, rec, with_transcript) ==
    LET r == [rec EXCEPT !.steps = Append(@, "extract_comic_data"),
                         !.comic_data = extract_comic_data(The(rec.soup))]
    IN IF r.comic_data = None
       THEN {Return(fs, r, FALSE)}
       ELSE run_download(fs, r, with_transcript)

\* lines 180-183 (223-226): fetch the page, return False if that failed
run_fetch(fs, rec, with_transcript) ==
    UNION {LET r == [rec EXCEPT !.steps = Append(@, "fetch_webpage"),
                                !.soup = fetch_webpage(rec.url, resp)]
           IN IF r.soup = None
              THEN {Return(fs, r, FALSE)}
              ELSE run_extract(fs, r, with_transcript)
           : resp \in PageResponses}

\* get_comic(comic_index): the outcomes the network and the file system allow
get_comic(fs, comic_index) ==
    run_fetch(fs, Start("get_comic", XKCD_BASE_URL \o str(comic_index)), TRUE)

get_current_comic_with_transcript(fs) ==
    run_fetch(fs, Start("get_current_comic", XKCD_BASE_URL), TRUE)

\* get_current_comic(): the same steps on the site root, the transcript not saved
get_current_comic(fs) ==
    run_fetch(fs, Start("get_current_comic", XKCD_BASE_URL), FALSE)

----------------------------------------------------------------------------
(* what_xkcd.py: the resize and crop arithmetic of the display renderer *)

TargetWidth  == 400
TargetHeight == 300

RECURSIVE Gcd(_, _)
Gcd(a, b) == IF b = 0 THEN a ELSE Gcd(b, a % b)

RECURSIVE IsPowerOfTwo(_)
IsPowerOfTwo(n) == n = 1 \/ (n > 1 /\ n % 2 = 0 /\ IsPowerOfTwo(n \div 2))

\* int((float(num) / den) * target).  The quotient is rounded to a double before
\* it is multiplied: when num/den is a dyadic fraction the product is exact; when
\* the exact product is no integer the rounding error cannot cross one; when the
\* exact product is an integer k and num/den was rounded, the double is k or just
\* below it, so the truncation is k or k - 1 (int(float(11) / 15 * 300) = 219).
IntOfScaled(num, den, target) ==
    LET k == (num * target) \div den IN
    IF (num * target) % den # 0 \/ IsPowerOfTwo(den \div Gcd(num, den))
    THEN {k}
    ELSE {k - 1, k}

\* int(x / 2) for an integer x: true division, truncated toward zero
IntHalf(x) == IF x >= 0 THEN x \div 2 ELSE -((-x) \div 2)

ptype_flipped(w, h) == IF w < h THEN "landscape" ELSE "portrait"

\* ptype = 'landscape' if w > h else 'portrait'
ptype(w, h) == IF w > h THEN "landscape" ELSE "portrait"

----------------------------------------------------------------------------
(* scraper.py: setup_daily_directory and main *)

\* The calendar days of the model, as <<year, month, day>>
Calendar == {<<2023, 12, 31>>, <<2024, 1, 5>>, <<2024, 1, 20>>}

FirstDay == <<2023, 12, 31>>

DateLess(a, b) ==
    \/ a[1] < b[1]
    \/ a[1] = b[1] /\ a[2] < b[2]
    \/ a[1] = b[1] /\ a[2] = b[2] /\ a[3] < b[3]

\* A field of strftime: n in decimal, zero-padded to width digits
RECURSIVE ZeroPad(_, _)
ZeroPad(n, width) ==
    IF width = 0 THEN <<>> ELSE ZeroPad(n \div 10, width - 1) \o <<Digit(n % 10)>>

\* datetime.strftime("%Y-%m-%d")
strftime(date) ==
    ZeroPad(date[1], 4) \o <<"-">> \o ZeroPad(date[2], 2) \o <<"-">> \o ZeroPad(date[3], 2)

\* The data/ directory: whether it exists, and its entries by name.  An entry is a
\* directory holding files, or a plain file.
NoEntries == [n \in {} |-> [isdir |-> FALSE, files |-> NoFiles]]
NoData == [exists |-> FALSE, entries |-> NoEntries]

PutEntry(entries, name, entry) ==
    [n \in DOMAIN entries \cup {name} |-> IF n = name THEN entry ELSE entries[n]]

\* setup_daily_directory: os.makedirs(data/<date>, exist_ok=True).  Some(the tree
\* with the directory in it), or None when the name is taken by a plain file
\* (FileExistsError, which main does not catch).
setup_daily_directory(d, date) ==
    IF date \in DOMAIN d.entries
    THEN IF d.entries[date].isdir THEN Some([d EXCEPT !.exists = TRUE]) ELSE None
    ELSE Some([exists |-> TRUE,
               entries |-> PutEntry(d.entries, date, [isdir |-> TRUE, files |-> NoFiles])])

\* main: the daily directory is made the working directory and get_current_comic
\* runs in it.  The outcomes are pairs of the tree afterwards and what the run did.
main(d, date) ==
    LET made == setup_daily_directory(d, date) IN
    IF made = None
    THEN {[data |-> d, last |-> NoRun]}
    ELSE {[data |-> [The(made) EXCEPT !.entries[date].files = res.files],
           last |-> res.last]
          : res \in get_current_comic(The(made).entries[date].files)}

----------------------------------------------------------------------------
(* update_readme.py *)

sorted_ascending(names) ==
    LET RECURSIVE Sort(_)
        Sort(S) ==
            IF S = {} THEN <<>>
            ELSE LET least == CHOOSE x \in S : \A y \in S : ~StrLess(y, x)
                 IN <<least>> \o Sort(S \ {least})
    IN Sort(names)

\* sorted(names, reverse=True): the greatest string first
sorted_reverse(names) ==
    LET RECURSIVE Sort(_)
        Sort(S) ==
            IF S = {} THEN <<>>
            ELSE LET greatest == CHOOSE x \in S : \A y \in S : ~StrLess(x, y)
                 IN <<greatest>> \o Sort(S \ {greatest})
    IN Sort(names)

PngSuffix == <<".", "p", "n", "g">>

\* glob.glob(os.path.join(dir, '*.png')): the names that end in .png; a name that
\* starts with '.' is not matched by '*'
glob_png(names) ==
    {f \in names : EndsWith(f, PngSuffix) /\ ~StartsWith(f, <<".">>)}

\* The index of the last '.' of a name, 0 if there is none
LastDot(name) ==
    LET dots == {i \in 1..Len(name) : name[i] = "."} IN
    IF dots = {} THEN 0 ELSE CHOOSE i \in dots : \A j \in dots : j <= i

\* pathlib.Path(p).stem: the name without its last suffix; a leading or a trailing
\* '.' starts no suffix
stem(name) ==
    LET i == LastDot(name) IN
    IF 1 < i /\ i < Len(name) THEN SubSeq(name, 1, i - 1) ELSE name

\* os.path.relpath(image_path, project_root)
relpath(date, name) == <<"d", "a", "t", "a", "/">> \o date \o <<"/">> \o name

\* get_most_recent_comic, lines 18-21: the names of the subdirectories of data/
date_dirs_of(d) == sorted_reverse({n \in DOMAIN d.entries : d.entries[n].isdir})

\* lines 38-48: the tuple returned for the chosen file
comic_info_for(most_recent_date, name) ==
    [date |-> most_recent_date,
     title |-> stem(name),
     image_path |-> replace_spaces(relpath(most_recent_date, name))]

get_most_recent_comic_ascending(d) ==
    IF ~d.exists THEN {None}
    ELSE LET date_dirs == sorted_ascending({n \in DOMAIN d.entries : d.entries[n].isdir}) IN
         IF date_dirs = <<>> THEN {None}
         ELSE LET png_files == glob_png(DOMAIN d.entries[date_dirs[1]].files) IN
              IF png_files = {} THEN {None}
              ELSE {Some(comic_info_for(date_dirs[1], f)) : f \in png_files}

get_most_recent_comic_fallback(d) ==
    IF ~d.exists THEN {None}
    ELSE LET with_png == {n \in DOMAIN d.entries :
                            d.entries[n].isdir /\ glob_png(DOMAIN d.entries[n].files) # {}}
             date_dirs == sorted_reverse(with_png)
         IN IF date_dirs = <<>> THEN {None}
            ELSE {Some(comic_info_for(date_dirs[1], f))
                  : f \in glob_png(DOMAIN d.entries[date_dirs[1]].files)}

\* get_most_recent_comic: None, or Some(date, title, path).  glob returns the
\* matching files in the order the directory lists them, so png_files[0] is any
\* one of them.
get_most_recent_comic(d) ==
    IF ~d.exists THEN {None}
    ELSE LET date_dirs == date_dirs_of(d) IN
         IF date_dirs = <<>> THEN {None}
         ELSE LET most_recent_date == date_dirs[1]
                  png_files == glob_png(DOMAIN d.entries[most_recent_date].files)
              IN IF png_files = {} THEN {None}
                 ELSE {Some(comic_info_for(most_recent_date, f)) : f \in png_files}

\* update_readme: README.md afterwards, with the comic_info it was written from.
\* The file holds the template filled with date, title and image path.
update_readme(d, readme_md) ==
    {[comic_info |-> comic_info,
      readme |-> IF comic_info = None THEN readme_md ELSE comic_info]
     : comic_info \in get_most_recent_comic(d)}

----------------------------------------------------------------------------
(* State machines *)

\* The two entry points, scraper.py and update_readme.py, run as separate
\* processes over data/ and README.md, in any order and on any day
OldPng == <<"A", "b", ".", "p", "n", "g">>

\* What data/ can hold before the first run: nothing at all, or for each day of
\* the calendar no directory or one with a comic in it, and possibly a plain file
\* next to them
InitialEntry == {"absent", "comic"}

InitialTrees ==
    {NoData} \cup
    {[exists |-> TRUE,
      entries |->
        [n \in {strftime(day) : day \in {c \in Calendar : kind[c] # "absent"}}
               \cup (IF plain THEN {<<"x">>} ELSE {})
          |-> IF n = <<"x">>
              THEN [isdir |-> FALSE, files |-> NoFiles]
              ELSE [isdir |-> TRUE,
                    files |-> IF \E c \in Calendar : strftime(c) = n /\ kind[c] = "comic"
                              THEN Put(NoFiles, OldPng, <<3>>)
                              ELSE NoFiles]]]
     : kind \in [Calendar -> InitialEntry], plain \in BOOLEAN}

OldReadme == Some([date |-> <<"o", "l", "d">>, title |-> <<"o", "l", "d">>,
                   image_path |-> <<"o", "l", "d">>])

\* What a run of main left to see: the day's directory name, and the return
\* value and image path of its get_current_comic
NoMain == [date |-> <<>>, ret |-> FALSE, image_path |-> None]

\* sanitize_filename applied to one string
SanInit ==
    /\ s_pc = "input" /\ s_in \in SanInputs /\ s_out = <<>>
    /\ r_pc = "idle" /\ img_size = <<1, 1>> /\ resized = <<0, 0>> /\ box = <<0, 0, 0, 0>>
    /\ files = NoFiles /\ before = NoFiles /\ last = NoRun /\ runs = 0
    /\ data = NoData /\ readme = None /\ today = FirstDay
    /\ d_pc = "idle" /\ d_last = NoMain /\ u_last = None /\ d_runs = 0

Sanitize ==
    /\ s_pc = "input"
    /\ s_out' = sanitize_filename(s_in)
    /\ s_pc' = "done"
    /\ UNCHANGED <<s_in, renderVars, scrapeVars, dailyVars>>

\* The renderer on one image of size img_size
RenderInit ==
    /\ r_pc = "opened" /\ img_size \in (1..MaxDim) \X (1..MaxDim)
    /\ resized = <<0, 0>> /\ box = <<0, 0, 0, 0>>
    /\ s_pc = "idle" /\ s_in = <<>> /\ s_out = <<>>
    /\ files = NoFiles /\ before = NoFiles /\ last = NoRun /\ runs = 0
    /\ data = NoData /\ readme = None /\ today = FirstDay
    /\ d_pc = "idle" /\ d_last = NoMain /\ u_last = None /\ d_runs = 0

\* what_xkcd.py lines 30-56: the size handed to img.resize and the crop box
Resize ==
    /\ r_pc = "opened"
    /\ LET w == img_size[1]
           h == img_size[2]
       IN IF ptype(w, h) = "landscape"
          THEN \E h_new \in IntOfScaled(h, w, TargetWidth) :
                  LET y0 == IntHalf(h_new - TargetHeight) IN
                  /\ resized' = <<TargetWidth, h_new>>
                  /\ box' = <<0, y0, TargetWidth, y0 + TargetHeight>>
          ELSE \E w_new \in IntOfScaled(w, h, TargetHeight) :
                  LET x0 == IntHalf(w_new - TargetWidth) IN
                  /\ resized' = <<w_new, TargetHeight>>
                  /\ box' = <<x0, 0, x0 + TargetWidth, TargetHeight>>
    /\ r_pc' = "resized"
    /\ UNCHANGED <<img_size, sanVars, scrapeVars, dailyVars>>

\* get_comic and get_current_comic called in one working directory, empty at first
ScrapeInit ==
    /\ files = NoFiles /\ before = NoFiles /\ last = NoRun /\ runs = 0
    /\ s_pc = "idle" /\ s_in = <<>> /\ s_out = <<>>
    /\ r_pc = "idle" /\ img_size = <<1, 1>> /\ resized = <<0, 0>> /\ box = <<0, 0, 0, 0>>
    /\ data = NoData /\ readme = None /\ today = FirstDay
    /\ d_pc = "idle" /\ d_last = NoMain /\ u_last = None /\ d_runs = 0

GetComic ==
    /\ runs < MaxRuns
    /\ \E comic_index \in ComicIndexes :
         \E res \in get_comic(files, comic_index) :
            /\ files' = res.files
            /\ last' = res.last
    /\ before' = files
    /\ runs' = runs + 1
    /\ UNCHANGED <<sanVars, renderVars, dailyVars>>

GetCurrentComic ==
    /\ runs < MaxRuns
    /\ \E res \in get_current_comic(files) :
          /\ files' = res.files
          /\ last' = res.last
    /\ before' = files
    /\ runs' = runs + 1
    /\ UNCHANGED <<sanVars, renderVars, dailyVars>>

DailyInit ==
    /\ data \in InitialTrees /\ readme = OldReadme /\ today \in Calendar
    /\ d_pc = "start" /\ d_last = NoMain /\ u_last = None /\ d_runs = 0
    /\ s_pc = "idle" /\ s_in = <<>> /\ s_out = <<>>
    /\ r_pc = "idle" /\ img_size = <<1, 1>> /\ resized = <<0, 0>> /\ box = <<0, 0, 0, 0>>
    /\ files = NoFiles /\ before = NoFiles /\ last = NoRun /\ runs = 0

\* python scraper.py
Main ==
    /\ d_runs < MaxDays
    /\ \E res \in main(data, strftime(today)) :
          /\ data' = res.data
          /\ d_last' = [date |-> strftime(today), ret |-> res.last.ret,
                        image_path |-> res.last.image_path]
    /\ d_pc' = "main"
    /\ d_runs' = d_runs + 1
    /\ UNCHANGED <<readme, today, u_last, sanVars, renderVars, scrapeVars>>

\* python update_readme.py
UpdateReadme ==
    /\ \E out \in update_readme(data, readme) :
          /\ readme' = out.readme
          /\ u_last' = Some([before |-> readme, comic_info |-> out.comic_info, prev |-> d_pc])
    /\ d_pc' = "update_readme"
    /\ UNCHANGED <<data, today, d_last, d_runs, sanVars, renderVars, scrapeVars>>

\* Midnight passes
NextDay ==
    /\ \E day \in Calendar : DateLess(today, day) /\ today' = day
    /\ d_pc' = "next_day"
    /\ UNCHANGED <<data, readme, d_last, u_last, d_runs, sanVars, renderVars, scrapeVars>>

----------------------------------------------------------------------------
(* Specifications *)

SpecSanitize == SanInit /\ [][Sanitize]_vars

SpecRender == RenderInit /\ [][Resize]_vars

ScrapeNext == GetComic \/ GetCurrentComic

SpecScrape == ScrapeInit /\ [][ScrapeNext]_vars

DailyNext == Main \/ UpdateReadme \/ NextDay

SpecDaily == DailyInit /\ [][DailyNext]_vars

----------------------------------------------------------------------------
(* Properties of get_comic and get_current_comic, under SpecScrape *)

PipelineOrder ==
    <<"fetch_webpage", "extract_comic_data", "download_image", "save_image", "save_transcript">>

IsPrefix(a, b) == Len(a) <= Len(b) /\ SubSeq(b, 1, Len(a)) = a

Attempted(step) == \E i \in 1..Len(last.steps) : last.steps[i] = step

\* The text after the last '.' of a string, the whole string if it has none
TextAfterLastDot(url) == SubSeq(url, LastDot(url) + 1, Len(url))

\* The paths the last call is to write, from the page it extracted
ExpectedImagePath ==
    sanitize_filename(The(last.comic_data).title) \o <<".">>
        \o TextAfterLastDot(The(last.comic_data).image_url)

ExpectedTranscriptPath ==
    sanitize_filename(The(last.comic_data).title) \o TranscriptSuffix

\* The files the last call created or changed
Changed == {p \in DOMAIN files : p \notin DOMAIN before \/ files[p] # before[p]}

\* C1: get_comic attempts its steps in the order fetch, extract, download,
\* save-image, save-transcript and stops at the first failed one: when
\* fetch_webpage, extract_comic_data or download_image fails (an HTTP 404 on the
\* image included), that step is the last one attempted, get_comic returns False
\* and the directory is as it was (from an empty directory: no file at all).
C1_ShortCircuit ==
    last.op = "get_comic" =>
        /\ last.steps # <<>> /\ IsPrefix(last.steps, PipelineOrder)
        /\ last.soup = None => last.steps = SubSeq(PipelineOrder, 1, 1)
        /\ (last.soup # None /\ last.comic_data = None) =>
               last.steps = SubSeq(PipelineOrder, 1, 2)
        /\ (last.comic_data # None /\ last.image_data = None) =>
               last.steps = SubSeq(PipelineOrder, 1, 3)
        /\ (last.soup = None \/ last.comic_data = None \/ last.image_data = None) =>
               /\ last.ret = FALSE
               /\ files = before
               /\ last.image_path = None /\ last.transcript_path = None
               /\ (before = NoFiles => DOMAIN files = {})

\* A 404 on the image, in an empty directory: False, and still no file
C1_Witness ==
    /\ last.op = "get_comic"
    /\ last.image_resp # None /\ The(last.image_resp).status = 404
    /\ last.steps = SubSeq(PipelineOrder, 1, 3)
    /\ last.ret = FALSE
    /\ before = NoFiles /\ files = NoFiles

\* C2: when every step of get_comic succeeds it returns True, and then the
\* directory differs from before in exactly the two files
\* <sanitized_title>.<ext>, holding the bytes the image server served, and
\* <sanitized_title>_transcript.txt, holding the transcript, <ext> being the text
\* after the last '.' of the image URL; every other file is as it was, and a
\* directory that had neither file has two files more.
C2_SuccessWritesTwoFiles ==
    last.op = "get_comic" =>
        /\ (last.io_transcript # None /\ The(last.io_transcript).kind = "ok") => last.ret
        /\ last.ret =>
            /\ last.steps = PipelineOrder
            /\ last.image_path = Some(ExpectedImagePath)
            /\ last.transcript_path = Some(ExpectedTranscriptPath)
            /\ ExpectedImagePath # ExpectedTranscriptPath
            /\ DOMAIN files = DOMAIN before \cup {ExpectedImagePath, ExpectedTranscriptPath}
            /\ The(last.image_resp).status = 200
            /\ files[ExpectedImagePath] = The(The(last.image_resp).body)
            /\ utf8_decode(files[ExpectedTranscriptPath]) = The(last.comic_data).transcript
            /\ Changed \subseteq {ExpectedImagePath, ExpectedTranscriptPath}
            /\ ({ExpectedImagePath, ExpectedTranscriptPath} \cap DOMAIN before = {}
                    => Cardinality(DOMAIN files) = Cardinality(DOMAIN before) + 2)

\* A successful get_comic in an empty directory, which then holds two files
C2_Witness ==
    /\ last.op = "get_comic" /\ last.ret
    /\ before = NoFiles
    /\ Cardinality(DOMAIN files) = 2

\* Whether the last call's save_image wrote the whole image to its path
ImageSaved ==
    /\ last.io_image # None /\ The(last.io_image).kind = "ok"
    /\ The(last.image_path) \in DOMAIN files
    /\ files[The(last.image_path)] = The(last.image_data)

C7_ImageKeptWhenTranscriptFails ==
    (/\ last.op = "get_comic"
     /\ last.io_transcript # None
     /\ The(last.io_transcript).kind # "ok") =>
        /\ last.ret = FALSE
        /\ The(last.image_path) \in DOMAIN files
        /\ files[The(last.image_path)] = The(last.image_data)

\* get_comic returned False in an empty directory and left the image behind
C7_Witness ==
    /\ last.op = "get_comic" /\ last.ret = FALSE
    /\ last.io_transcript # None /\ The(last.io_transcript).kind = "open_error"
    /\ before = NoFiles
    /\ DOMAIN files = {The(last.image_path)}

\* C8: last write wins.  A save whose open and write meet no error from the
\* operating system succeeds whether or not the path existed, and the file then
\* holds exactly the new content: after a successful run the image file holds the
\* bytes of that run, whatever an earlier run left under the same name.
C8_LastWriteWins ==
    /\ (/\ last.io_image # None
        /\ The(last.io_image).kind = "ok"
        /\ ~Contains(The(last.image_path), "/")) =>
            /\ The(last.image_path) \in DOMAIN files
            /\ files[The(last.image_path)] = The(last.image_data)
            /\ last.op = "get_current_comic" => last.ret
    /\ (last.io_transcript # None /\ The(last.io_transcript).kind = "ok") =>
            /\ last.ret
            /\ files[The(last.transcript_path)] = utf8_encode(The(last.comic_data).transcript)
    /\ last.ret =>
            /\ files[The(last.image_path)] = The(The(last.image_resp).body)
            /\ Cardinality({p \in DOMAIN files : p = The(last.image_path)}) = 1

\* A successful run replaced an image an earlier run had saved under the same
\* name with other bytes
C8_Witness ==
    /\ last.ret
    /\ The(last.image_path) \in DOMAIN before
    /\ before[The(last.image_path)] # files[The(last.image_path)]
    /\ files[The(last.image_path)] = The(last.image_data)

----------------------------------------------------------------------------
(* Properties of update_readme and of the two entry points in sequence, under
   SpecDaily *)

\* The names of the immediate subdirectories of data/
Subdirs == {n \in DOMAIN data.entries : data.entries[n].isdir}

\* The lexicographically greatest of them
GreatestSubdir == CHOOSE n \in Subdirs : \A m \in Subdirs : ~StrLess(n, m)

DatedDays == {c \in Calendar : strftime(c) \in Subdirs}

\* C4: when update_readme writes README.md, the date in it is the name of the
\* subdirectory of data/ that is lexicographically greatest, and where all the
\* subdirectories are named by zero-padded dates that is the latest date.
C4_SelectsGreatestName ==
    (d_pc = "update_readme" /\ The(u_last).comic_info # None) =>
        /\ readme # None
        /\ The(readme).date \in Subdirs
        /\ \A m \in Subdirs : ~StrLess(The(readme).date, m)
        /\ (\A n \in Subdirs : \E c \in Calendar : n = strftime(c)) =>
              \E c \in DatedDays :
                 /\ The(readme).date = strftime(c)
                 /\ \A c2 \in DatedDays : ~DateLess(c, c2)

\* Out of 2024-01-05, 2024-01-20 and 2023-12-31 the README gets 2024-01-20
C4_Witness ==
    /\ d_pc = "update_readme"
    /\ Subdirs = {strftime(<<2024, 1, 5>>), strftime(<<2024, 1, 20>>), strftime(<<2023, 12, 31>>)}
    /\ readme # The(u_last).before
    /\ The(readme).date = <<"2", "0", "2", "4", "-", "0", "1", "-", "2", "0">>

\* C5: when data/ is missing, has no subdirectory, or its lexicographically
\* greatest subdirectory holds no file matching the glob, update_readme leaves
\* README.md as it was, whatever the older directories hold.
C5_AbortLeavesReadme ==
    (/\ d_pc = "update_readme"
     /\ \/ ~data.exists
        \/ Subdirs = {}
        \/ glob_png(DOMAIN data.entries[GreatestSubdir].files) = {}) =>
        /\ The(u_last).comic_info = None
        /\ readme = The(u_last).before

\* The greatest directory has no image, an older one has, and README.md is as it was
C5_Witness ==
    /\ d_pc = "update_readme"
    /\ Subdirs # {}
    /\ glob_png(DOMAIN data.entries[GreatestSubdir].files) = {}
    /\ \E n \in Subdirs : glob_png(DOMAIN data.entries[n].files) # {}
    /\ readme = The(u_last).before

\* C10: whenever main reported success and data/ holds no subdirectory name
\* greater than today's date, an update_readme run right after it leaves
\* README.md with today's date and a reference to the image file that run saved.
C10_ReadmeShowsTheComicJustSaved ==
    (/\ d_pc = "update_readme"
     /\ The(u_last).prev = "main"
     /\ d_last.ret
     /\ d_last.date = strftime(today)
     /\ \A n \in Subdirs : ~StrLess(strftime(today), n)) =>
        /\ readme # None
        /\ The(readme).date = strftime(today)
        /\ The(readme).image_path =
              replace_spaces(<<"d", "a", "t", "a", "/">> \o strftime(today) \o <<"/">>
                             \o The(d_last.image_path))

----------------------------------------------------------------------------
(* Property of sanitize_filename, under SpecSanitize *)

Denylisted == {"/", "\\", "?", "%", "*", ":", "|", "\"", "<", ">", "."}

\* The positions of s_in that hold no denylisted character
KeptPositions == {i \in 1..Len(s_in) : s_in[i] \notin Denylisted}

\* The k-th of them
KthKept(k) == CHOOSE i \in KeptPositions : Cardinality({j \in KeptPositions : j <= i}) = k

\* C6: sanitize_filename(s) contains none of the denylisted characters, consists
\* of the other characters of s in their original order, and is s itself when s
\* contains none of them.
C6_SanitizeRemovesDenylist ==
    s_pc = "done" =>
        /\ \A i \in 1..Len(s_out) : s_out[i] \notin Denylisted
        /\ Len(s_out) = Cardinality(KeptPositions)
        /\ \A k \in 1..Len(s_out) : s_out[k] = s_in[KthKept(k)]
        /\ (\A i \in 1..Len(s_in) : s_in[i] \notin Denylisted) => s_out = s_in

\* "A.b" has become "Ab"
C6_Witness ==
    /\ s_pc = "done"
    /\ s_in = <<"A", ".", "b">>
    /\ s_out = <<"A", "b">>

----------------------------------------------------------------------------
(* Properties of the renderer's resize step, under SpecRender *)

====
